---- MODULE Spec2Model ----
(***************************************************************************)
(* closx: policy gate, process execution and <shell>-tag processing.       *)
(*                                                                         *)
(* Strings are sequences of characters over a small alphabet, so that      *)
(* String.startsWith and String.includes are computed, not assumed.        *)
(* One shellExecuteTool.execute call is in flight at a time (the caller    *)
(* awaits it).  The state holds the closure of that call; once the caller  *)
(* has taken the result the closure is dropped: what it may still hold (a  *)
(* timer, a child that has not closed) can only run callbacks of that      *)
(* closure, whose commandFinished is set and whose listeners are removed.  *)
(***************************************************************************)
EXTENDS Integers, Sequences, FiniteSets, TLC

\* ----------------------------------------------------------------- bounds
MaxLen == 2          \* longest command text
MaxDirectives == 2   \* most <shell> directives in one response
MaxRemembered == 2   \* most commands whose decisions are kept for comparison

Alphabet == {"a", "b"}

RECURSIVE StringsOfLen(_)
StringsOfLen(n) ==
    IF n = 0 THEN {<<>>}
    ELSE {Append(s, c) : s \in StringsOfLen(n - 1), c \in Alphabet}

StringsUpTo(n) == UNION {StringsOfLen(k) : k \in 0..n}

Commands == StringsUpTo(MaxLen)

\* Sample contents of commandWhitelist / commandBlacklist: empty, one entry
\* (one or two characters), two entries.
Lists == {{}, {<<"a">>}, {<<"b">>}, {<<"a", "b">>}, {<<"a">>, <<"b">>}}

\* exitCode: code of the close event is null when the child died of a signal
NullCode == -1
NoCmd == <<"-">>
NoResult == [exitCode |-> -2, stderr |-> "unresolved"]

Modes == {"whitelist", "blacklist", "auto", "message", "other"}

VARIABLES
    settings,            \* SettingsManager.settings: mode and the two lists
    pc,                  \* position of the call in flight
    via,                 \* which entry point started the call in flight
    command,             \* local `command` (replaced by the modify prompt)
    timeout,             \* context.timeout is truthy
    needsConfirmation,
    confirmationReason,
    confirmDefault,
    warned,              \* ConsoleUtils.showWarning of the AUTO branch was shown
    decidedCommand,      \* the text the policy block was evaluated on
    userChoice,          \* the answer that set confirmedToExecute
    spawnedCommand,      \* the text handed to spawn / exec, NoCmd before
    child,               \* "none", "spawnfail", "live", "failed", "closed"
    kills,               \* signals sent to the child with childProcess.kill
    caughtKillError,     \* kill emitted 'error' with no listener; the catch took it
    commandFinished,
    timeoutId,           \* "null", "armed", "cleared", "fired"
    sigintRegistered,    \* process.on('SIGINT', sigintHandler) is in effect
    listeners,           \* listeners registered on the child and its streams
    result,              \* value the promise resolved with
    terminals,           \* terminal actions that ran their resolution, in order
    lateSigint,          \* a SIGINT arrived after the resolution
    prevDecision,        \* <<command, decision, decided again>> since the last update
    tagCommands,         \* directives extracted by processShellTags
    tagIndex,
    tagOptions,
    tagResults,
    started,             \* directives a child was started for, in order
    toolRuns,            \* directives the agent ran with its tool on request
    inFlight,            \* agent calls and executions not yet returned
    globalSigint,        \* the SIGINT listener of terminal-agent.ts is registered
    loopPc,              \* position of the chat loop, "closed" without a session
    loopOptions,         \* which loop runs, and its verbose option
    messages,            \* state.messages: the conversation
    agentCalls,          \* agent calls made by the loop in the current turn
    shown,               \* what the console last reported: "none", "cleared", "error"
    responseText,        \* the response text handed to processResponseForDisplay
    processed,           \* its ProcessedResponse, once it has returned
    allowAutoExecution,  \* settings.allowAutoExecution, from the environment
    loadPending          \* configuration files loadSettings has still to try

callVars == <<pc, via, command, timeout, needsConfirmation, confirmationReason,
              confirmDefault, warned, decidedCommand, userChoice>>
procVars == <<spawnedCommand, child, kills, caughtKillError, commandFinished, timeoutId,
              sigintRegistered, listeners, result, terminals, lateSigint>>
tagVars == <<tagCommands, tagIndex, tagOptions, tagResults, started, toolRuns,
            inFlight>>
extractVars == <<responseText, processed>>
configVars == <<allowAutoExecution, loadPending>>
sessionVars == <<globalSigint, loopPc, loopOptions, messages, agentCalls, shown,
                 extractVars, configVars>>
vars == <<settings, callVars, procVars, prevDecision, tagVars, sessionVars>>

\* ------------------------------------------------------------ pure helpers
startsWith(s, p) == Len(p) <= Len(s) /\ SubSeq(s, 1, Len(p)) = p

includes(s, p) ==
    \E i \in 0..(Len(s) - Len(p)) : SubSeq(s, i + 1, i + Len(p)) = p

getCommandExecutionMode == settings.mode
getCommandWhitelist == settings.commandWhitelist
getCommandBlacklist == settings.commandBlacklist

\* variant: a command decided before counts as allow-listed (hidden state)
isOnWhitelist_Remembering(cmd, whitelist) ==
    \/ \E wlCmd \in whitelist : startsWith(cmd, wlCmd) \/ cmd = wlCmd
    \/ \E e \in prevDecision : e[1] = cmd

isOnWhitelist(cmd, whitelist) ==
    \E wlCmd \in whitelist : startsWith(cmd, wlCmd) \/ cmd = wlCmd

\* variant: the deny list matched as a prefix instead of a substring
isOnBlacklist_Prefix(cmd, blacklist) ==
    \E blCmd \in blacklist : startsWith(cmd, blCmd)

isOnBlacklist(cmd, blacklist) ==
    \E blCmd \in blacklist : includes(cmd, blCmd)

\* The policy block of shellExecuteTool.execute: the values of
\* needsConfirmation, confirmationReason and confirmDefault it leaves, and
\* whether it resolved at once (MESSAGE mode).
\* variant: the deny list is consulted before the allow list
WhitelistBranch_DenyFirst(cmd, whitelist, blacklist) ==
    IF isOnBlacklist(cmd, blacklist)
    THEN [blocked |-> FALSE, needsConfirmation |-> TRUE,
          confirmationReason |-> "blacklist", confirmDefault |-> FALSE]
    ELSE IF isOnWhitelist(cmd, whitelist)
    THEN [blocked |-> FALSE, needsConfirmation |-> FALSE,
          confirmationReason |-> "whitelist", confirmDefault |-> TRUE]
    ELSE [blocked |-> FALSE, needsConfirmation |-> TRUE,
          confirmationReason |-> "other", confirmDefault |-> TRUE]

\* variant: `confirmDefault = false` of the deny-listed case is left out
WhitelistBranch_DefaultYes(cmd, whitelist, blacklist) ==
    IF isOnWhitelist(cmd, whitelist)
    THEN [blocked |-> FALSE, needsConfirmation |-> FALSE,
          confirmationReason |-> "whitelist", confirmDefault |-> TRUE]
    ELSE [blocked |-> FALSE, needsConfirmation |-> TRUE,
          confirmationReason |->
              IF isOnBlacklist(cmd, blacklist) THEN "blacklist" ELSE "other",
          confirmDefault |-> TRUE]

WhitelistBranch(cmd, whitelist, blacklist) ==
    IF isOnWhitelist(cmd, whitelist)
    THEN [blocked |-> FALSE, needsConfirmation |-> FALSE,
          confirmationReason |-> "whitelist", confirmDefault |-> TRUE]
    ELSE [blocked |-> FALSE, needsConfirmation |-> TRUE,
          confirmationReason |->
              IF isOnBlacklist(cmd, blacklist) THEN "blacklist" ELSE "other",
          confirmDefault |-> ~isOnBlacklist(cmd, blacklist)]

BlacklistBranch(cmd, whitelist, blacklist) ==
    IF isOnBlacklist(cmd, blacklist)
    THEN [blocked |-> FALSE, needsConfirmation |-> TRUE,
          confirmationReason |-> "blacklist", confirmDefault |-> FALSE]
    ELSE [blocked |-> FALSE, needsConfirmation |-> FALSE,
          confirmationReason |->
              IF isOnWhitelist(cmd, whitelist) THEN "whitelist" ELSE "other",
          confirmDefault |-> TRUE]

\* variant: an unknown mode lets every command through unasked
UnknownBranch_Permissive(cmd, whitelist, blacklist) ==
    [blocked |-> FALSE, needsConfirmation |-> FALSE,
     confirmationReason |-> "other", confirmDefault |-> TRUE]

\* the final else: a mode that is none of the four ("defaulting to WHITELIST
\* behavior")
UnknownBranch(cmd, whitelist, blacklist) ==
    IF isOnWhitelist(cmd, whitelist)
    THEN [blocked |-> FALSE, needsConfirmation |-> FALSE,
          confirmationReason |-> "whitelist", confirmDefault |-> TRUE]
    ELSE IF isOnBlacklist(cmd, blacklist)
    THEN [blocked |-> FALSE, needsConfirmation |-> TRUE,
          confirmationReason |-> "blacklist", confirmDefault |-> FALSE]
    ELSE [blocked |-> FALSE, needsConfirmation |-> TRUE,
          confirmationReason |-> "other", confirmDefault |-> TRUE]

\* variant: AUTO asks for confirmation of a deny-listed command
AutoBranch_ConfirmDenied(cmd, blacklist) ==
    [blocked |-> FALSE, needsConfirmation |-> isOnBlacklist(cmd, blacklist),
     confirmationReason |-> "auto", confirmDefault |-> TRUE]

AutoBranch(cmd, blacklist) ==
    [blocked |-> FALSE, needsConfirmation |-> FALSE,
     confirmationReason |-> "auto", confirmDefault |-> TRUE]

\* variant: MESSAGE mode does not return early
MessageBranch_FallsThrough(cmd) ==
    [blocked |-> FALSE, needsConfirmation |-> FALSE,
     confirmationReason |-> "", confirmDefault |-> TRUE]

MessageBranch(cmd) ==
    [blocked |-> TRUE, needsConfirmation |-> FALSE,
     confirmationReason |-> "", confirmDefault |-> TRUE]

PolicyBlock(cmd, mode, whitelist, blacklist) ==
    IF mode = "message" THEN MessageBranch(cmd)
    ELSE IF mode = "auto" THEN AutoBranch(cmd, blacklist)
    ELSE IF mode = "whitelist" THEN WhitelistBranch(cmd, whitelist, blacklist)
    ELSE IF mode = "blacklist" THEN BlacklistBranch(cmd, whitelist, blacklist)
    ELSE UnknownBranch(cmd, whitelist, blacklist)

\* ConsoleUtils.showWarning of the AUTO branch
AutoWarning(cmd, mode, blacklist) == mode = "auto" /\ isOnBlacklist(cmd, blacklist)

\* ------------------------------------------------- shellExecuteTool.execute
MessageResult == [exitCode |-> 0, stderr |-> "Command not executed (MESSAGE mode)"]
CancelledResult == [exitCode |-> 1, stderr |-> "cancelled by user"]
PromptFailedResult == [exitCode |-> 1, stderr |-> "Failed to get user confirmation"]
InterruptedResult == [exitCode |-> 130, stderr |-> "Command was interrupted by user"]
TimedOutResult == [exitCode |-> 124, stderr |-> "Command execution timed out"]
SpawnErrorResult == [exitCode |-> 1, stderr |-> "Command execution error"]
CloseResult(code) == [exitCode |-> code, stderr |-> ""]

\* the four `if (commandFinished)` checks
CloseGuard == ~commandFinished
ErrorGuard == ~commandFinished
TimeoutGuard_Always == TRUE   \* variant: the timer callback without its check
TimeoutGuard == ~commandFinished
SigintGuard == ~commandFinished

\* clearTimeout(timeoutId) under `if (timeoutId)`
ClearTimeout_Forgets(id) == id   \* variant: clearTimeout left out
ClearTimeout(id) == IF id = "armed" THEN "cleared" ELSE id

\* removeAllListeners(): what is left registered afterwards
RemoveSigint_Leaks(registered) == registered   \* variant: listener not removed
RemoveSigint(registered) == FALSE
\* variant: the child's close and error listeners stay registered
RemoveChildListeners_Keeps(ls) == ls
RemoveChildListeners(ls) == {}

\* resolve(): a promise keeps the first value it is resolved with
Resolve(res) == IF result = NoResult THEN res ELSE result

Idle == pc = "idle"

\* No child: the promise resolves before spawn is reached.
ResolveUnspawned(res) ==
    /\ pc' = "resolved"
    /\ result' = res
    /\ spawnedCommand' = NoCmd
    /\ child' = "none"
    /\ kills' = <<>>
    /\ caughtKillError' = FALSE
    /\ commandFinished' = FALSE
    /\ timeoutId' = "null"
    /\ sigintRegistered' = FALSE
    /\ listeners' = {}
    /\ terminals' = <<>>
    /\ lateSigint' = FALSE

\* An await on inquirer.prompt: nothing of the process part exists yet.
AwaitPrompt(at) ==
    /\ pc' = at
    /\ result' = NoResult
    /\ spawnedCommand' = NoCmd
    /\ child' = "none"
    /\ kills' = <<>>
    /\ caughtKillError' = FALSE
    /\ commandFinished' = FALSE
    /\ timeoutId' = "null"
    /\ sigintRegistered' = FALSE
    /\ listeners' = {}
    /\ terminals' = <<>>
    /\ lateSigint' = FALSE

\* spawn(command, [], options) and the synchronous code after it: the
\* SIGINT listener, the stream and child listeners, the timer.  ok = FALSE is
\* a spawn failure, which the child reports as an 'error' event on the next
\* tick.
SpawnChild(cmd, t, ok) ==
    /\ pc' = "running"
    /\ result' = NoResult
    /\ spawnedCommand' = cmd
    /\ child' = IF ok THEN "live" ELSE "spawnfail"
    /\ kills' = <<>>
    /\ caughtKillError' = FALSE
    /\ commandFinished' = FALSE
    /\ sigintRegistered' = TRUE
    /\ listeners' = {"stdout", "stderr", "close", "error"}
    /\ timeoutId' = IF t THEN "armed" ELSE "null"
    /\ terminals' = <<>>
    /\ lateSigint' = FALSE

\* execute({context}): the policy block and, when no confirmation is needed,
\* the spawn that follows it without an await in between.
Execute(cmd, t) ==
    /\ Idle
    /\ LET d == PolicyBlock(cmd, getCommandExecutionMode, getCommandWhitelist,
                            getCommandBlacklist)
       IN /\ via' = "tool"
          /\ command' = cmd
          /\ timeout' = t
          /\ decidedCommand' = cmd
          /\ needsConfirmation' = d.needsConfirmation
          /\ confirmationReason' = d.confirmationReason
          /\ confirmDefault' = d.confirmDefault
          /\ warned' = AutoWarning(cmd, getCommandExecutionMode, getCommandBlacklist)
          /\ userChoice' = "none"
          /\ IF d.blocked THEN ResolveUnspawned(MessageResult)
             ELSE IF d.needsConfirmation THEN AwaitPrompt("prompt")
             ELSE \E ok \in BOOLEAN : SpawnChild(cmd, t, ok)
    /\ tagCommands' = <<>>
    /\ tagIndex' = 0
    /\ tagOptions' = [executeCommands |-> FALSE, interactive |-> FALSE,
                      interactiveCommand |-> FALSE]
    /\ tagResults' = <<>>
    /\ started' = <<>>
    /\ toolRuns' = <<>>
    /\ inFlight' = <<>>
    /\ UNCHANGED <<settings, prevDecision, sessionVars>>

promptFrame == <<settings, via, timeout, needsConfirmation, confirmationReason,
                 confirmDefault, warned, decidedCommand, prevDecision, tagVars,
                 sessionVars>>

\* confirmedToExecute = true, then the spawn
Confirmed(choice) ==
    /\ userChoice' = choice
    /\ \E ok \in BOOLEAN : SpawnChild(command', timeout, ok)

\* variant: a refusal shows the first menu again
Refused_AsksAgain ==
    /\ userChoice' = userChoice
    /\ AwaitPrompt("prompt")

\* confirmedToExecute = false
Refused ==
    /\ userChoice' = "reject"
    /\ ResolveUnspawned(CancelledResult)

\* `default: confirmDefault ? 'execute' : 'reject'` of the first menu
PromptDefault == IF confirmDefault THEN "execute" ELSE "reject"

\* first menu: execute / modify / details / reject
AnswerPrompt(action) ==
    /\ pc = "prompt"
    /\ command' = command
    /\ CASE action = "execute" -> Confirmed("execute")
         [] action = "modify" -> userChoice' = userChoice /\ AwaitPrompt("modify")
         [] action = "details" -> userChoice' = userChoice /\ AwaitPrompt("details")
         [] OTHER -> Refused
    /\ UNCHANGED promptFrame

\* input prompt after modify (first menu or details menu)
AnswerModify(modifiedCommand) ==
    /\ pc \in {"modify", "modify2"}
    /\ IF modifiedCommand # <<>> /\ modifiedCommand # command
       THEN /\ command' = modifiedCommand
            /\ Confirmed("modify")
       ELSE /\ command' = command
            /\ userChoice' = userChoice
            /\ AwaitPrompt(IF pc = "modify" THEN "unchanged" ELSE "unchanged2")
    /\ UNCHANGED promptFrame

\* "command unchanged": list execute / reject, or the confirm prompt
AnswerUnchanged(execute) ==
    /\ pc \in {"unchanged", "unchanged2"}
    /\ command' = command
    /\ IF execute THEN Confirmed("execute") ELSE Refused
    /\ UNCHANGED promptFrame

\* menu shown after the details: execute / modify / reject
AnswerDetails(retry) ==
    /\ pc = "details"
    /\ command' = command
    /\ CASE retry = "execute" -> Confirmed("execute")
         [] retry = "modify" -> userChoice' = userChoice /\ AwaitPrompt("modify2")
         [] OTHER -> Refused
    /\ UNCHANGED promptFrame

\* inquirer.prompt rejects: the catch block resolves
PromptFails ==
    /\ pc \in {"prompt", "modify", "unchanged", "details", "modify2", "unchanged2"}
    /\ command' = command
    /\ userChoice' = "failed"
    /\ ResolveUnspawned(PromptFailedResult)
    /\ UNCHANGED promptFrame

\* ------------------------------------------- events of the running command
ExitCodes == {0, 1, NullCode}

eventFrame == <<settings, via, command, timeout, needsConfirmation,
                confirmationReason, confirmDefault, warned, decidedCommand, userChoice,
                spawnedCommand, prevDecision, tagVars, sessionVars>>

\* The body of a terminal action: flag, listeners, optional kill, resolve.
\* childProcess.kill emits 'error' on the child when the signal cannot be
\* delivered; with the listeners already removed the emit throws and the
\* try/catch around kill takes it.
Terminal(kind, res, timerAfter, signal) ==
    /\ commandFinished' = TRUE
    /\ timeoutId' = timerAfter
    /\ sigintRegistered' = RemoveSigint(sigintRegistered)
    /\ listeners' = RemoveChildListeners(listeners)
    /\ kills' = IF signal = "" THEN kills ELSE Append(kills, signal)
    /\ IF signal = "" THEN caughtKillError' = caughtKillError
       ELSE \E undelivered \in BOOLEAN :
               caughtKillError' =
                   (caughtKillError \/ (undelivered /\ "error" \notin listeners'))
    /\ result' = Resolve(res)
    /\ terminals' = Append(terminals, kind)
    /\ pc' = "resolved"
    /\ lateSigint' = lateSigint

\* An event whose handler is gone or returns at once.
Absorbed(event) ==
    /\ lateSigint' = (lateSigint \/ (event = "sigint" /\ pc = "resolved"))
    /\ UNCHANGED <<commandFinished, sigintRegistered, listeners, kills,
                   caughtKillError, result, terminals, pc>>

\* childProcess.on('error'): the spawn failure, emitted on the next tick,
\* before any signal, timer or close event can be dispatched.
ChildError ==
    /\ pc = "running"
    /\ child = "spawnfail"
    /\ child' = "failed"
    /\ IF "error" \in listeners /\ ErrorGuard
       THEN Terminal("SPAWN_ERROR", SpawnErrorResult, ClearTimeout(timeoutId), "")
       ELSE Absorbed("error") /\ timeoutId' = timeoutId
    /\ UNCHANGED eventFrame

\* childProcess.on('close')
ChildClose(code) ==
    /\ pc \in {"running", "resolved"}
    /\ child \in {"live", "failed"}
    /\ child' = "closed"
    /\ IF "close" \in listeners /\ CloseGuard
       THEN Terminal("CLOSED", CloseResult(code), ClearTimeout(timeoutId), "")
       ELSE Absorbed("close") /\ timeoutId' = timeoutId
    /\ UNCHANGED eventFrame

\* the setTimeout callback
TimerFires ==
    /\ pc \in {"running", "resolved"}
    /\ child # "spawnfail"
    /\ timeoutId = "armed"
    /\ child' = child
    /\ IF TimeoutGuard
       THEN Terminal("TIMED_OUT", TimedOutResult, "fired", "SIGTERM")
       ELSE Absorbed("timer") /\ timeoutId' = "fired"
    /\ UNCHANGED eventFrame

\* The module-level process.on('SIGINT') of the CLI: process.exit(0). Nothing
\* of the process runs afterwards.
ProcessExit ==
    /\ pc' = "exited"
    /\ UNCHANGED <<commandFinished, timeoutId, sigintRegistered, listeners, kills,
                   caughtKillError, result, terminals, lateSigint>>

\* SIGINT delivered to the process. Listeners run in the order they were
\* registered: the module-level one of the CLI, where loaded, comes first.
Sigint ==
    /\ pc # "exited"
    /\ globalSigint \/ (pc \in {"running", "resolved"} /\ child \notin {"none", "spawnfail"})
    /\ child' = child
    /\ IF globalSigint THEN ProcessExit
       ELSE IF sigintRegistered /\ SigintGuard
       THEN Terminal("INTERRUPTED", InterruptedResult, timeoutId, "SIGINT")
       ELSE Absorbed("sigint") /\ timeoutId' = timeoutId
    /\ UNCHANGED eventFrame

\* ------------------------------------- interactiveShellExecuteTool.execute
\* The tool with stdio 'inherit': no policy block, no prompt.  Its handlers
\* remove the SIGINT listener only; the child's listeners stay, the timer is
\* never cleared, and only 'close' and 'error' set commandFinished.
InteractiveInterrupted == [exitCode |-> 130, stderr |-> ""]
InteractiveTimedOut == [exitCode |-> 124, stderr |-> "Command execution timed out"]
InteractiveError == [exitCode |-> 1, stderr |-> "Command execution error"]
InteractiveClosed(code) == [exitCode |-> code, stderr |-> ""]

\* The body of a handler that resolves: flag, SIGINT listener, optional
\* kill, resolve.
InteractiveTerminal(kind, res, finished, signal) ==
    /\ commandFinished' = finished
    /\ sigintRegistered' = RemoveSigint(sigintRegistered)
    /\ listeners' = listeners
    /\ kills' = IF signal = "" THEN kills ELSE Append(kills, signal)
    /\ caughtKillError' = caughtKillError
    /\ result' = Resolve(res)
    /\ terminals' = Append(terminals, kind)
    /\ pc' = "resolved"
    /\ lateSigint' = lateSigint

\* execute({context}) up to the end of the promise executor
InteractiveExecute(cmd, t) ==
    /\ Idle
    /\ via' = "interactive"
    /\ command' = cmd
    /\ timeout' = t
    /\ decidedCommand' = NoCmd
    /\ needsConfirmation' = FALSE
    /\ confirmationReason' = ""
    /\ confirmDefault' = TRUE
    /\ warned' = FALSE
    /\ userChoice' = "none"
    /\ \E ok \in BOOLEAN :
          /\ pc' = "running"
          /\ result' = NoResult
          /\ spawnedCommand' = cmd
          /\ child' = IF ok THEN "live" ELSE "spawnfail"
          /\ kills' = <<>>
          /\ caughtKillError' = FALSE
          /\ commandFinished' = FALSE
          /\ sigintRegistered' = TRUE
          /\ listeners' = {"close", "error"}
          /\ timeoutId' = IF t THEN "armed" ELSE "null"
          /\ terminals' = <<>>
          /\ lateSigint' = FALSE
    /\ tagCommands' = <<>>
    /\ tagIndex' = 0
    /\ tagOptions' = [executeCommands |-> FALSE, interactive |-> FALSE,
                      interactiveCommand |-> FALSE]
    /\ tagResults' = <<>>
    /\ started' = <<>>
    /\ toolRuns' = <<>>
    /\ inFlight' = <<>>
    /\ UNCHANGED <<settings, prevDecision, sessionVars>>

\* childProcess.on('error')
InteractiveChildError ==
    /\ via = "interactive"
    /\ pc = "running"
    /\ child = "spawnfail"
    /\ child' = "failed"
    /\ timeoutId' = timeoutId
    /\ InteractiveTerminal("SPAWN_ERROR", InteractiveError, TRUE, "")
    /\ UNCHANGED eventFrame

\* childProcess.on('close')
InteractiveChildClose(code) ==
    /\ via = "interactive"
    /\ pc \in {"running", "resolved"}
    /\ child \in {"live", "failed"}
    /\ child' = "closed"
    /\ timeoutId' = timeoutId
    /\ InteractiveTerminal("CLOSED", InteractiveClosed(code), TRUE, "")
    /\ UNCHANGED eventFrame

\* the setTimeout callback
InteractiveTimerFires ==
    /\ via = "interactive"
    /\ pc \in {"running", "resolved"}
    /\ child # "spawnfail"
    /\ timeoutId = "armed"
    /\ timeoutId' = "fired"
    /\ child' = child
    /\ IF ~commandFinished
       THEN InteractiveTerminal("TIMED_OUT", InteractiveTimedOut, commandFinished,
                                "SIGTERM")
       ELSE Absorbed("timer")
    /\ UNCHANGED eventFrame

\* SIGINT delivered to the process
InteractiveSigint ==
    /\ via = "interactive"
    /\ pc \in {"running", "resolved"}
    /\ child \notin {"none", "spawnfail"}
    /\ child' = child
    /\ timeoutId' = timeoutId
    /\ IF globalSigint THEN ProcessExit
       ELSE IF sigintRegistered /\ ~commandFinished
       THEN InteractiveTerminal("INTERRUPTED", InteractiveInterrupted,
                                commandFinished, "SIGINT")
       ELSE Absorbed("sigint")
    /\ UNCHANGED eventFrame

\* ------------------------------------ ShellTagProcessor.processShellTags
\* Sample directive texts (non-empty after trim, see `if (cmd)`).
Directives == {<<"a">>, <<"a", "b">>, <<"b", "a">>}
DirectiveLists == UNION {[1..n -> Directives] : n \in 1..MaxDirectives}
TagOptions == [executeCommands : BOOLEAN, interactive : BOOLEAN,
               interactiveCommand : BOOLEAN]
NoOptions == [executeCommands |-> FALSE, interactive |-> FALSE,
              interactiveCommand |-> FALSE]

\* `code || 0` of executeInteractive / execInherit, `err.code || 1` of execute
OrZero(code) == IF code = NullCode THEN 0 ELSE code
OrOne(code) == IF code \in {NullCode, 0} THEN 1 ELSE code

TagResult(cmd, output, exitCode) ==
    [command |-> cmd, output |-> output, exitCode |-> exitCode]

\* variant: a batch that is not executed returns no results
AllResults_None(cmds, output) == <<>>

AllResults(cmds, output) ==
    [i \in 1..Len(cmds) |-> TagResult(cmds[i], output, 0)]

\* No tool call is in flight on these paths.
NoToolCall(entry) ==
    /\ via' = entry
    /\ command' = NoCmd
    /\ timeout' = FALSE
    /\ decidedCommand' = NoCmd
    /\ needsConfirmation' = FALSE
    /\ confirmationReason' = ""
    /\ confirmDefault' = TRUE
    /\ warned' = FALSE
    /\ userChoice' = "none"
    /\ child' = "none"
    /\ kills' = <<>>
    /\ caughtKillError' = FALSE
    /\ commandFinished' = FALSE
    /\ timeoutId' = "null"
    /\ sigintRegistered' = FALSE
    /\ listeners' = {}
    /\ result' = NoResult
    /\ terminals' = <<>>
    /\ lateSigint' = FALSE

\* An operation the code has started and whose promise it awaits.
Op(kind, i) == [op |-> kind, index |-> i]
StartOp(fl, op) == Append(fl, op)

AwaitOp_NotAwaited(fl, op) == fl   \* variant: the promise is not awaited
\* `await`: the code goes on only when the operation has returned
AwaitOp(fl, op) == SelectSeq(fl, LAMBDA o : o # op)

\* One iteration of `for (const cmd of commands)` up to its first await; fl
\* is what is in flight when the iteration starts.
TagIteration(i, cmds, opts, results, fl) ==
    /\ tagCommands' = cmds
    /\ tagOptions' = opts
    /\ tagIndex' = i
    /\ tagResults' = results
    /\ IF opts.interactiveCommand
       THEN /\ pc' = "tagAgent"
            /\ spawnedCommand' = NoCmd
            /\ started' = started
            /\ toolRuns' = toolRuns
            /\ inFlight' = StartOp(fl, Op("agent", i))
       ELSE /\ pc' = "tagChild"
            /\ spawnedCommand' = cmds[i]
            /\ started' = Append(started, cmds[i])
            /\ toolRuns' = toolRuns
            /\ inFlight' = StartOp(fl, Op("exec", i))

\* `return results` of a call on the directives cmds
TagReturn(cmds, results, fl) ==
    /\ pc' = "tagDone"
    /\ spawnedCommand' = NoCmd
    /\ tagResults' = results
    /\ tagIndex' = 0
    /\ tagCommands' = cmds
    /\ tagOptions' = NoOptions
    /\ started' = started
    /\ toolRuns' = toolRuns
    /\ inFlight' = fl

\* processShellTags(response, currentDir, options) up to its first await;
\* fl is what is in flight when it is called
ShellTagsCall(cmds, opts, fl) ==
    /\ Idle
    /\ NoToolCall("tags")
    /\ IF cmds = <<>> THEN TagReturn(cmds, <<>>, fl)
       ELSE IF ~opts.executeCommands THEN TagReturn(cmds, AllResults(cmds, ""), fl)
       ELSE IF opts.interactive
            THEN /\ pc' = "tagConfirm"
                 /\ spawnedCommand' = NoCmd
                 /\ tagCommands' = cmds
                 /\ tagOptions' = opts
                 /\ tagIndex' = 0
                 /\ tagResults' = <<>>
                 /\ started' = started
                 /\ toolRuns' = toolRuns
                 /\ inFlight' = fl
            ELSE TagIteration(1, cmds, opts, <<>>, fl)

ProcessShellTags(cmds, opts) ==
    /\ ShellTagsCall(cmds, opts, inFlight)
    /\ UNCHANGED <<settings, prevDecision, sessionVars>>

tagFrame == <<settings, via, command, timeout, needsConfirmation,
              confirmationReason, confirmDefault, warned, decidedCommand, userChoice,
              child, kills, caughtKillError, commandFinished, timeoutId, sigintRegistered,
              listeners, result, terminals, lateSigint, prevDecision,
              sessionVars>>

\* the batch prompt of the interactive option
TagConfirm(confirm) ==
    /\ pc = "tagConfirm"
    /\ IF confirm
       THEN TagIteration(1, tagCommands, tagOptions, tagResults, inFlight)
       ELSE TagReturn(tagCommands, AllResults(tagCommands, "cancelled"), inFlight)
    /\ UNCHANGED tagFrame

\* agentService.streamResponse returned or threw: both branches go on to
\* shellExecutor.executeInteractive(cmd, currentDir).  The message asked the
\* agent to run the command with its interactive-shell-execute tool; ranTool
\* says whether it did so while the response was streamed.
TagAgentReturns(ok, ranTool) ==
    /\ pc = "tagAgent"
    /\ pc' = "tagChild"
    /\ spawnedCommand' = tagCommands[tagIndex]
    /\ started' = Append(started, tagCommands[tagIndex])
    /\ toolRuns' = IF ranTool THEN Append(toolRuns, tagCommands[tagIndex])
                   ELSE toolRuns
    /\ inFlight' = StartOp(AwaitOp(inFlight, Op("agent", tagIndex)),
                           Op("exec", tagIndex))
    /\ UNCHANGED <<tagCommands, tagOptions, tagIndex, tagResults>>
    /\ UNCHANGED tagFrame

\* the child of shellExecutor.execute / executeInteractive ended
TagChildDone(code) ==
    /\ pc = "tagChild"
    /\ via = "tags"
    /\ LET cmd == tagCommands[tagIndex]
           exit == IF tagOptions.interactiveCommand THEN OrZero(code)
                   ELSE IF code = 0 THEN 0 ELSE OrOne(code)
           out == IF tagOptions.interactiveCommand THEN "interactive" ELSE "output"
           results == Append(tagResults, TagResult(cmd, out, exit))
           fl == AwaitOp(inFlight, Op("exec", tagIndex))
       IN IF tagIndex < Len(tagCommands)
          THEN TagIteration(tagIndex + 1, tagCommands, tagOptions, results, fl)
          ELSE TagReturn(tagCommands, results, fl)
    /\ UNCHANGED tagFrame

\* ------------------- ShellTagProcessor.processShellTags with the policy
\* SettingsManager.isCommandAllowed
isCommandAllowed(cmd) ==
    IF ~allowAutoExecution THEN FALSE
    ELSE IF isOnBlacklist(cmd, getCommandBlacklist) THEN FALSE
    ELSE IF getCommandWhitelist = {} THEN TRUE
    ELSE \E whiteCmd \in getCommandWhitelist : startsWith(cmd, whiteCmd)

\* shouldConfirmCommand: whether the policy asks for a confirmation of cmd
shouldConfirmCommand(cmd) ==
    IF getCommandExecutionMode = "whitelist"
    THEN ~isOnWhitelist(cmd, getCommandWhitelist)
    ELSE IF getCommandExecutionMode = "blacklist"
    THEN isOnBlacklist(cmd, getCommandBlacklist)
    ELSE FALSE

\* the per-command confirmation of the WHITELIST and BLACKLIST modes, then
\* the execution
PolicyConfirmStop(i, cmds, opts, results) ==
    IF /\ getCommandExecutionMode \in {"whitelist", "blacklist"}
       /\ opts.interactive
       /\ shouldConfirmCommand(cmds[i])
    THEN [at |-> "commandPrompt", index |-> i, results |-> results]
    ELSE [at |-> "exec", index |-> i, results |-> results]

\* `for (const cmd of commands)` from command i up to its next await: a
\* prompt, the start of a command, or the end of the loop; a command that is
\* not allowed gets its result and the loop goes on (`continue`).
RECURSIVE PolicyStop(_, _, _, _)
PolicyStop(i, cmds, opts, results) ==
    IF i > Len(cmds) THEN [at |-> "return", index |-> 0, results |-> results]
    ELSE IF isOnBlacklist(cmds[i], getCommandBlacklist)
    THEN [at |-> "blacklistPrompt", index |-> i, results |-> results]
    ELSE IF ~isCommandAllowed(cmds[i])
    THEN PolicyStop(i + 1, cmds, opts,
                    Append(results, TagResult(cmds[i], "forbidden", 1)))
    ELSE PolicyConfirmStop(i, cmds, opts, results)

\* the processor goes on to where the loop stops next
PolicyGoto(stop, cmds, opts, fl) ==
    IF stop.at = "return" THEN TagReturn(cmds, stop.results, fl)
    ELSE IF stop.at = "exec" THEN TagIteration(stop.index, cmds, opts, stop.results, fl)
    ELSE /\ pc' = stop.at
         /\ spawnedCommand' = NoCmd
         /\ tagCommands' = cmds
         /\ tagOptions' = opts
         /\ tagIndex' = stop.index
         /\ tagResults' = stop.results
         /\ started' = started
         /\ toolRuns' = toolRuns
         /\ inFlight' = fl

\* the batch decision: which prompt is asked, or whether the commands run
hasBlacklistedCommands(cmds) ==
    \E i \in 1..Len(cmds) : isOnBlacklist(cmds[i], getCommandBlacklist)

BatchDecision(cmds, opts) ==
    IF hasBlacklistedCommands(cmds) THEN "batchPrompt"
    ELSE IF getCommandExecutionMode = "message" THEN "cancel"
    ELSE IF getCommandExecutionMode = "auto" THEN "execute"
    ELSE IF opts.interactive
    THEN IF getCommandExecutionMode \in {"whitelist", "blacklist"}
         THEN IF \E i \in 1..Len(cmds) : shouldConfirmCommand(cmds[i])
              THEN "batchPrompt" ELSE "execute"
         ELSE "batchPrompt"
    ELSE "execute"

\* processShellTags(response, currentDir, options) up to its first await
PolicyShellTags(cmds, opts) ==
    /\ Idle
    /\ NoToolCall("policyTags")
    /\ IF cmds = <<>> THEN TagReturn(cmds, <<>>, inFlight)
       ELSE IF ~opts.executeCommands THEN TagReturn(cmds, AllResults(cmds, ""), inFlight)
       ELSE IF BatchDecision(cmds, opts) = "batchPrompt"
       THEN PolicyGoto([at |-> "batchPrompt", index |-> 0, results |-> <<>>],
                       cmds, opts, inFlight)
       ELSE IF BatchDecision(cmds, opts) = "cancel"
       THEN TagReturn(cmds, AllResults(cmds, "cancelled"), inFlight)
       ELSE PolicyGoto(PolicyStop(1, cmds, opts, <<>>), cmds, opts, inFlight)
    /\ UNCHANGED <<settings, prevDecision, sessionVars>>

\* the answer to either batch prompt: shouldExecute = confirm
PolicyBatchAnswer(confirm) ==
    /\ pc = "batchPrompt"
    /\ IF confirm
       THEN PolicyGoto(PolicyStop(1, tagCommands, tagOptions, <<>>),
                       tagCommands, tagOptions, inFlight)
       ELSE TagReturn(tagCommands, AllResults(tagCommands, "cancelled"), inFlight)
    /\ UNCHANGED tagFrame

\* the answer to the prompt of a command that is on the blacklist
PolicyBlacklistAnswer(confirmBlacklisted) ==
    /\ pc = "blacklistPrompt"
    /\ IF confirmBlacklisted
       THEN PolicyGoto(PolicyConfirmStop(tagIndex, tagCommands, tagOptions, tagResults),
                       tagCommands, tagOptions, inFlight)
       ELSE PolicyGoto(PolicyStop(tagIndex + 1, tagCommands, tagOptions,
                           Append(tagResults,
                                  TagResult(tagCommands[tagIndex], "blacklisted", 1))),
                       tagCommands, tagOptions, inFlight)
    /\ UNCHANGED tagFrame

\* the answer to the prompt of a single command
PolicyCommandAnswer(confirmCmd) ==
    /\ pc = "commandPrompt"
    /\ IF confirmCmd
       THEN TagIteration(tagIndex, tagCommands, tagOptions, tagResults, inFlight)
       ELSE PolicyGoto(PolicyStop(tagIndex + 1, tagCommands, tagOptions,
                           Append(tagResults,
                                  TagResult(tagCommands[tagIndex], "cancelled", 0))),
                       tagCommands, tagOptions, inFlight)
    /\ UNCHANGED tagFrame

\* the child of shellExecutor.execute / executeInteractive ended
PolicyChildDone(code) ==
    /\ pc = "tagChild"
    /\ via = "policyTags"
    /\ LET cmd == tagCommands[tagIndex]
           exit == IF tagOptions.interactiveCommand THEN OrZero(code)
                   ELSE IF code = 0 THEN 0 ELSE OrOne(code)
           out == IF tagOptions.interactiveCommand THEN "interactive" ELSE "output"
           results == Append(tagResults, TagResult(cmd, out, exit))
           fl == AwaitOp(inFlight, Op("exec", tagIndex))
       IN PolicyGoto(PolicyStop(tagIndex + 1, tagCommands, tagOptions, results),
                     tagCommands, tagOptions, fl)
    /\ UNCHANGED tagFrame

\* ------------------------------- ResponseProcessor.executeShellCommands
\* one executeShellTagCommand(commands[i]) up to its await on execInherit
ShellTagCommand(i, cmds, results, fl) ==
    /\ tagCommands' = cmds
    /\ tagOptions' = NoOptions
    /\ tagIndex' = i
    /\ tagResults' = results
    /\ pc' = "tagChild"
    /\ spawnedCommand' = cmds[i]
    /\ started' = Append(started, cmds[i])
    /\ toolRuns' = toolRuns
    /\ inFlight' = StartOp(fl, Op("exec", i))

ExecuteShellCommands(cmds) ==
    /\ Idle
    /\ NoToolCall("response")
    /\ ShellTagCommand(1, cmds, <<>>, inFlight)
    /\ UNCHANGED <<settings, prevDecision, sessionVars>>

\* execInherit resolved on 'close' (code || 0) or rejected on 'error' (1)
ShellTagCommandDone(code, failed) ==
    /\ pc = "tagChild"
    /\ via = "response"
    /\ LET cmd == tagCommands[tagIndex]
           exit == IF failed THEN 1 ELSE OrZero(code)
           results == Append(tagResults, TagResult(cmd, "prompt", exit))
           fl == AwaitOp(inFlight, Op("exec", tagIndex))
       IN IF tagIndex < Len(tagCommands)
          THEN ShellTagCommand(tagIndex + 1, tagCommands, results, fl)
          ELSE TagReturn(tagCommands, results, fl)
    /\ UNCHANGED tagFrame

\* ------------------------------------------------------------ specification
Policies == [mode : Modes, commandWhitelist : Lists, commandBlacklist : Lists]

\* which loop drives the session: TerminalAgent itself, or TerminalAgent
\* through CommandProcessorService (with its --verbose option), the older
\* one built on streamResponse or the newer one built on generateResponse
LoopOptions == {[service |-> FALSE, verbose |-> FALSE, generate |-> FALSE],
                [service |-> TRUE, verbose |-> FALSE, generate |-> FALSE],
                [service |-> TRUE, verbose |-> TRUE, generate |-> FALSE],
                [service |-> TRUE, verbose |-> FALSE, generate |-> TRUE]}
NoLoop == [service |-> FALSE, verbose |-> FALSE, generate |-> FALSE]

\* The state after construction, before any call.
Constructed ==
    /\ settings \in Policies
    /\ pc = "idle"
    /\ via = "none"
    /\ command = NoCmd
    /\ timeout = FALSE
    /\ needsConfirmation = FALSE
    /\ confirmationReason = ""
    /\ confirmDefault = TRUE
    /\ warned = FALSE
    /\ decidedCommand = NoCmd
    /\ userChoice = "none"
    /\ spawnedCommand = NoCmd
    /\ child = "none"
    /\ kills = <<>>
    /\ caughtKillError = FALSE
    /\ commandFinished = FALSE
    /\ timeoutId = "null"
    /\ sigintRegistered = FALSE
    /\ listeners = {}
    /\ result = NoResult
    /\ terminals = <<>>
    /\ lateSigint = FALSE
    /\ prevDecision = {}
    /\ tagCommands = <<>>
    /\ tagIndex = 0
    /\ tagOptions = NoOptions
    /\ tagResults = <<>>
    /\ started = <<>>
    /\ toolRuns = <<>>
    /\ inFlight = <<>>

NoSession ==
    /\ loopPc = "closed"
    /\ loopOptions = NoLoop
    /\ messages = <<>>
    /\ agentCalls = 0
    /\ shown = "none"

\* no response text is being processed
NotProcessed == [done |-> FALSE, displayText |-> <<>>, shellCommands |-> <<>>]
NoResponse == responseText = <<>> /\ processed = NotProcessed

\* loadSettings has gone through all configuration files
Loaded == allowAutoExecution = TRUE /\ loadPending = 0

Init == Constructed /\ globalSigint = FALSE /\ NoSession /\ NoResponse /\ Loaded

\* The caller's await on the tool call ends: it has the result.
ToolCallReturns ==
    /\ pc = "resolved"
    /\ pc' = "idle"
    /\ via' = "none"
    /\ command' = NoCmd
    /\ timeout' = FALSE
    /\ needsConfirmation' = FALSE
    /\ confirmationReason' = ""
    /\ confirmDefault' = TRUE
    /\ warned' = FALSE
    /\ decidedCommand' = NoCmd
    /\ userChoice' = "none"
    /\ spawnedCommand' = NoCmd
    /\ child' = "none"
    /\ kills' = <<>>
    /\ caughtKillError' = FALSE
    /\ commandFinished' = FALSE
    /\ timeoutId' = "null"
    /\ sigintRegistered' = FALSE
    /\ listeners' = {}
    /\ result' = NoResult
    /\ terminals' = <<>>
    /\ lateSigint' = FALSE
    /\ UNCHANGED <<settings, prevDecision, tagVars, sessionVars>>

\* The caller's await on processShellTags / executeShellCommands ends.
TagsReturn ==
    /\ pc = "tagDone"
    /\ pc' = "idle"
    /\ via' = "none"
    /\ tagCommands' = <<>>
    /\ tagResults' = <<>>
    /\ started' = <<>>
    /\ toolRuns' = <<>>
    /\ inFlight' = <<>>
    /\ UNCHANGED <<settings, command, timeout, needsConfirmation, confirmationReason,
                   confirmDefault, warned, decidedCommand, userChoice, procVars,
                   prevDecision, tagIndex, tagOptions, sessionVars>>

\* shellExecuteTool.execute and the events of its child
Next ==
    \/ \E cmd \in Commands, t \in BOOLEAN : Execute(cmd, t)
    \/ \E action \in {"execute", "modify", "details", "reject"} : AnswerPrompt(action)
    \/ \E modifiedCommand \in Commands : AnswerModify(modifiedCommand)
    \/ \E execute \in BOOLEAN : AnswerUnchanged(execute)
    \/ \E retry \in {"execute", "modify", "reject"} : AnswerDetails(retry)
    \/ PromptFails
    \/ ChildError
    \/ \E code \in ExitCodes : ChildClose(code)
    \/ TimerFires
    \/ Sigint
    \/ ToolCallReturns

Spec == Init /\ [][Next]_vars

\* The tool called inside the CLI process, whose entry module registers the
\* module-level SIGINT listener at load.
InitSession == Constructed /\ globalSigint = TRUE /\ NoSession /\ NoResponse /\ Loaded

SpecSession == InitSession /\ [][Next]_vars

\* <shell> directives of a response: processShellTags, executeShellCommands
InitTags == Init /\ settings.commandWhitelist = {<<"a">>}
                 /\ settings.commandBlacklist = {<<"b">>}

NextTags ==
    \/ \E cmds \in DirectiveLists, opts \in TagOptions : ProcessShellTags(cmds, opts)
    \/ \E confirm \in BOOLEAN : TagConfirm(confirm)
    \/ \E ok \in BOOLEAN, ranTool \in BOOLEAN : TagAgentReturns(ok, ranTool)
    \/ \E code \in ExitCodes : TagChildDone(code)
    \/ \E cmds \in DirectiveLists : ExecuteShellCommands(cmds)
    \/ \E code \in ExitCodes, failed \in BOOLEAN : ShellTagCommandDone(code, failed)
    \/ TagsReturn

SpecTags == InitTags /\ [][NextTags]_vars

\* <shell> directives handled by the processor that consults the policy
InitPolicyTags ==
    /\ Constructed
    /\ settings.commandWhitelist = {<<"a">>}
    /\ settings.commandBlacklist = {<<"b">>}
    /\ globalSigint = FALSE
    /\ NoSession
    /\ NoResponse
    /\ allowAutoExecution \in BOOLEAN
    /\ loadPending = 0

NextPolicyTags ==
    \/ \E cmds \in DirectiveLists, opts \in TagOptions : PolicyShellTags(cmds, opts)
    \/ \E confirm \in BOOLEAN : PolicyBatchAnswer(confirm)
    \/ \E confirm \in BOOLEAN : PolicyBlacklistAnswer(confirm)
    \/ \E confirm \in BOOLEAN : PolicyCommandAnswer(confirm)
    \/ \E ok \in BOOLEAN, ranTool \in BOOLEAN : TagAgentReturns(ok, ranTool)
    \/ \E code \in ExitCodes : PolicyChildDone(code)
    \/ TagsReturn

SpecPolicyTags == InitPolicyTags /\ [][NextPolicyTags]_vars

\* --------------------------- ResponseProcessor.processResponseForDisplay
\* A response text is a sequence of tokens: the two markers, an ordinary
\* character and a blank.
MaxText == 4
OpenTag == "<shell>"
CloseTag == "</shell>"
TextTokens == {OpenTag, CloseTag, "a", " "}
Texts == UNION {[1..n -> TextTokens] : n \in 0..MaxText}

\* position of the first tok at or after from, 0 when there is none
RECURSIVE IndexOf(_, _, _)
IndexOf(text, tok, from) ==
    IF from > Len(text) THEN 0
    ELSE IF text[from] = tok THEN from
    ELSE IndexOf(text, tok, from + 1)

\* String.prototype.trim
RECURSIVE trim(_)
trim(text) ==
    IF text = <<>> THEN text
    ELSE IF Head(text) = " " THEN trim(Tail(text))
    ELSE IF text[Len(text)] = " " THEN trim(SubSeq(text, 1, Len(text) - 1))
    ELSE text

\* The loop over shellTagRegex.exec: /<shell>([\s\S]*?)<\/shell>/g matches at
\* the first opening marker that has a closing marker after it, up to the
\* first such closing marker, and goes on behind the match.  start and end
\* are offsets as in the code: start inclusive, end exclusive, from 0.
RECURSIVE extractShellCommandsFrom(_, _)
extractShellCommandsFrom(text, lastIndex) ==
    LET open == IndexOf(text, OpenTag, lastIndex + 1)
        close == IF open = 0 THEN 0 ELSE IndexOf(text, CloseTag, open + 1)
    IN IF open = 0 \/ close = 0 THEN <<>>
       ELSE <<[start |-> open - 1, end |-> close,
               content |-> trim(SubSeq(text, open + 1, close - 1))]>>
            \o extractShellCommandsFrom(text, close)

extractShellCommands(text) == extractShellCommandsFrom(text, 0)

\* the for loop of processResponseForDisplay and the tail after it
RECURSIVE displayTextFrom(_, _, _, _)
displayTextFrom(text, shellCommands, k, lastIndex) ==
    IF k > Len(shellCommands)
    THEN IF lastIndex < Len(text) THEN SubSeq(text, lastIndex + 1, Len(text)) ELSE <<>>
    ELSE SubSeq(text, lastIndex + 1, shellCommands[k].start)
         \o displayTextFrom(text, shellCommands, k + 1, shellCommands[k].end)

processResponseForDisplay(text) ==
    LET shellCommands == extractShellCommands(text)
    IN [done |-> TRUE,
        displayText |-> displayTextFrom(text, shellCommands, 1, 0),
        shellCommands |-> shellCommands]

\* a call of processResponseForDisplay on the response text returns
ProcessResponseForDisplay ==
    /\ ~processed.done
    /\ processed' = processResponseForDisplay(responseText)
    /\ UNCHANGED <<settings, callVars, procVars, prevDecision, tagVars, globalSigint,
                   loopPc, loopOptions, messages, agentCalls, shown, responseText,
                   configVars>>

InitExtract ==
    /\ Constructed
    /\ settings = [mode |-> "auto", commandWhitelist |-> {}, commandBlacklist |-> {}]
    /\ globalSigint = FALSE
    /\ NoSession
    /\ responseText \in Texts
    /\ processed = NotProcessed
    /\ Loaded

NextExtract == ProcessResponseForDisplay

SpecExtract == InitExtract /\ [][NextExtract]_vars

\* ------------------------------------------------ the orchestration loop
\* TerminalAgent.chatLoop with processAgentResponse / processCommandResults,
\* and the same loop through CommandProcessorService and SessionService.
MaxAgentCalls == 3   \* agent calls answered with directives in one user turn
MaxHistory == 4      \* a user turn starts only on a history this short

UserInputs == {<<"a">>}
LoopResponses == {<<>>, << <<"a">> >>, << <<"b">>, <<"a">> >>}

Message(role, text, directives, results) ==
    [role |-> role, text |-> text, directives |-> directives, results |-> results]
SystemMessage == Message("system", <<>>, <<>>, <<>>)
UserMessage(text) == Message("user", text, <<>>, <<>>)
ResponseText == <<"a">>
AssistantMessage(cmds) == Message("assistant", ResponseText, cmds, <<>>)
\* the response '' that generateResponse returns when the agent call failed
EmptyResponse == Message("assistant", <<>>, <<>>, <<>>)

Push_Front(ms, m) == <<m>> \o ms   \* variant: unshift instead of push
\* this.state.messages.push(m)
Push(ms, m) == Append(ms, m)

\* SessionService.addMessage: [...this.state.messages, m]
AddMessage(ms, m) == Append(ms, m)

AddToHistory(m) ==
    IF loopOptions.service THEN AddMessage(messages, m) ELSE Push(messages, m)

\* The text built from the command results: what it says of each result. The
\* exit code is written only under `verbose` of buildCommandResultsMessage;
\* the template of TerminalAgent has no exit code at all.
BuildCommandResultsMessage(results, verbose) ==
    [i \in 1..Len(results) |->
        [command |-> results[i].command,
         output |-> results[i].output,
         exitCode |-> IF verbose THEN <<results[i].exitCode>> ELSE <<>>]]

CommandResultsMessage(results, verbose) ==
    Message("user", <<>>, <<>>, BuildCommandResultsMessage(results, verbose))

HasResults_Always(results) == TRUE   \* variant: the length test left out
\* if (commandResults.length > 0)
HasResults(results) == Len(results) > 0

\* what the loop leaves alone
loopFrame == <<settings, prevDecision, globalSigint, loopOptions, extractVars,
               configVars>>

\* startInteractiveSession: the system message, then the first prompt
StartInteractiveSession(options) ==
    /\ loopPc = "closed"
    /\ pc = "idle"
    /\ loopOptions' = options
    /\ messages' = IF options.service THEN AddMessage(messages, SystemMessage)
                   ELSE Push(messages, SystemMessage)
    /\ loopPc' = "input"
    /\ UNCHANGED <<settings, prevDecision, globalSigint, agentCalls, shown, extractVars,
                   configVars,
                   callVars, procVars, tagVars>>

\* chatLoop: a line of input that is no special command; the user message,
\* then processAgentResponse up to its await on streamResponse
UserInput(text) ==
    /\ loopPc = "input"
    /\ pc = "idle"
    /\ Len(messages) <= MaxHistory
    /\ messages' = AddToHistory(UserMessage(text))
    /\ agentCalls' = 1
    /\ shown' = "none"
    /\ inFlight' = StartOp(inFlight, Op("agent", 0))
    /\ loopPc' = "agent"
    /\ UNCHANGED <<loopFrame, callVars, procVars, tagCommands, tagIndex,
                   tagOptions, tagResults, started, toolRuns>>

\* chatLoop: the input /clear. SpecialCommandHandler empties the array it is
\* given and pushes the system messages back; CommandProcessorService hands
\* it a copy of the session's list.
Clear ==
    /\ loopPc = "input"
    /\ pc = "idle"
    /\ messages' = IF loopOptions.service THEN messages
                   ELSE SelectSeq(messages, LAMBDA m : m.role = "system")
    /\ shown' = "cleared"
    /\ UNCHANGED <<loopFrame, loopPc, agentCalls, callVars, procVars, tagVars>>

\* options of the processShellTags call of each of the two methods
FirstTagOptions ==
    [executeCommands |-> TRUE, interactive |-> TRUE,
     interactiveCommand |-> loopOptions.service]
AgainTagOptions ==
    [executeCommands |-> FALSE, interactive |-> FALSE, interactiveCommand |-> FALSE]

\* processAgentResponse / processCommandResults after streamResponse gave a
\* response with the directives cmds: the assistant message, then the call
\* of processShellTags up to its first await
AgentResponds(cmds) ==
    /\ loopPc \in {"agent", "agentAgain"}
    /\ ~loopOptions.generate
    /\ cmds # <<>> => agentCalls < MaxAgentCalls
    /\ messages' = AddToHistory(AssistantMessage(cmds))
    /\ ShellTagsCall(cmds,
                     IF loopPc = "agent" THEN FirstTagOptions ELSE AgainTagOptions,
                     AwaitOp(inFlight, Op("agent", 0)))
    /\ loopPc' = IF loopPc = "agent" THEN "tags" ELSE "tagsAgain"
    /\ UNCHANGED <<loopFrame, agentCalls, shown>>

AfterFailure_Retry == "agent"   \* variant: the failed call is made again
\* where the loop is after a failed agent call: the methods return, the
\* chat loop shows its prompt
AfterFailure == "input"

\* streamResponse / generateResponse threw (agent not initialised): the
\* catch block reports the error, nothing is added
AgentFails ==
    /\ loopPc \in {"agent", "agentAgain"}
    /\ pc = "idle"
    /\ inFlight' = AwaitOp(inFlight, Op("agent", 0))
    /\ loopPc' = AfterFailure
    /\ shown' = "error"
    /\ UNCHANGED <<loopFrame, messages, agentCalls, callVars, procVars,
                   tagCommands, tagIndex, tagOptions, tagResults, started, toolRuns>>

\* what the newer processAgentResponse leaves alone
generateFrame == <<loopFrame, agentCalls, callVars, procVars, tagCommands,
                   tagIndex, tagOptions, tagResults, started, toolRuns>>

\* The newer CommandProcessorService.processAgentResponse after
\* generateResponse returned a response with the directives cmds: the
\* assistant message; the directives are only logged and it returns false.
GenerateResponds(cmds) ==
    /\ loopPc = "agent"
    /\ loopOptions.generate
    /\ pc = "idle"
    /\ messages' = AddToHistory(AssistantMessage(cmds))
    /\ inFlight' = AwaitOp(inFlight, Op("agent", 0))
    /\ loopPc' = "input"
    /\ shown' = shown
    /\ UNCHANGED generateFrame

\* shell.generate threw: generateResponse logs the error and returns '',
\* which processAgentResponse treats as the response
GenerateFails ==
    /\ loopPc = "agent"
    /\ loopOptions.generate
    /\ pc = "idle"
    /\ messages' = AddToHistory(EmptyResponse)
    /\ inFlight' = AwaitOp(inFlight, Op("agent", 0))
    /\ loopPc' = AfterFailure
    /\ shown' = "error"
    /\ UNCHANGED generateFrame

\* processShellTags returned to processAgentResponse / processCommandResults:
\* with results, the user message and the next call of streamResponse
TagsReturnToLoop ==
    /\ loopPc \in {"tags", "tagsAgain"}
    /\ pc = "tagDone"
    /\ pc' = "idle"
    /\ via' = "none"
    /\ tagCommands' = <<>>
    /\ tagResults' = <<>>
    /\ started' = <<>>
    /\ toolRuns' = <<>>
    /\ IF HasResults(tagResults)
       THEN /\ messages' = AddToHistory(CommandResultsMessage(tagResults,
                               loopPc = "tags" /\ loopOptions.service
                                   /\ loopOptions.verbose))
            /\ agentCalls' = agentCalls + 1
            /\ inFlight' = StartOp(inFlight, Op("agent", 0))
            /\ loopPc' = "agentAgain"
       ELSE /\ messages' = messages
            /\ agentCalls' = agentCalls
            /\ inFlight' = inFlight
            /\ loopPc' = "input"
    /\ UNCHANGED <<loopFrame, shown, command, timeout, needsConfirmation,
                   confirmationReason, confirmDefault, warned, decidedCommand,
                   userChoice, procVars, tagIndex, tagOptions>>

\* Calls of interactiveShellExecuteTool, one after the other.
NextInteractive ==
    \/ \E cmd \in Commands, t \in BOOLEAN : InteractiveExecute(cmd, t)
    \/ InteractiveChildError
    \/ \E code \in ExitCodes : InteractiveChildClose(code)
    \/ InteractiveTimerFires
    \/ InteractiveSigint
    \/ ToolCallReturns

\* the settings play no part in this tool
InitInteractive ==
    Init /\ settings = [mode |-> "auto", commandWhitelist |-> {},
                        commandBlacklist |-> {}]

SpecInteractive == InitInteractive /\ [][NextInteractive]_vars

\* The interactive session of the CLI.
InitLoop ==
    /\ Constructed
    /\ settings = [mode |-> "auto", commandWhitelist |-> {}, commandBlacklist |-> {}]
    /\ globalSigint = TRUE
    /\ NoSession
    /\ NoResponse
    /\ Loaded

NextLoop ==
    \/ \E options \in LoopOptions : StartInteractiveSession(options)
    \/ \E text \in UserInputs : UserInput(text)
    \/ Clear
    \/ \E cmds \in LoopResponses : AgentResponds(cmds)
    \/ AgentFails
    \/ \E cmds \in LoopResponses : GenerateResponds(cmds)
    \/ GenerateFails
    \/ \E confirm \in BOOLEAN : TagConfirm(confirm)
    \/ \E ok \in BOOLEAN, ranTool \in BOOLEAN : TagAgentReturns(ok, ranTool)
    \/ \E code \in ExitCodes : TagChildDone(code)
    \/ TagsReturnToLoop
    \/ Sigint

SpecLoop == InitLoop /\ [][NextLoop]_vars

\* ------------------------------------------- the policy block on its own
\* The policy block of execute applied to cmd under the current settings;
\* the decision is kept beside the command for up to MaxRemembered commands,
\* with a mark when the same decision has come out again.
Decide(cmd) ==
    /\ Idle
    /\ LET d == PolicyBlock(cmd, getCommandExecutionMode, getCommandWhitelist,
                            getCommandBlacklist)
       IN prevDecision' =
              IF \E e \in prevDecision : e[1] = cmd /\ e[2] = d
              THEN {e \in prevDecision : e[1] # cmd \/ e[2] # d}
                       \cup {<<cmd, d, TRUE>>}
              ELSE IF \/ Cardinality({e[1] : e \in prevDecision}) < MaxRemembered
                      \/ \E e \in prevDecision : e[1] = cmd
                   THEN prevDecision \cup {<<cmd, d, FALSE>>}
                   ELSE prevDecision
    /\ UNCHANGED <<settings, callVars, procVars, tagVars, sessionVars>>

\* settingsManager.updateSettings({field: value})
UpdateSettings(field, value) ==
    /\ Idle
    /\ settings' = [settings EXCEPT ![field] = value]
    /\ prevDecision' = {}
    /\ UNCHANGED <<callVars, procVars, tagVars, sessionVars>>

NextDecide ==
    \/ \E cmd \in Commands : Decide(cmd)
    \/ \E mode \in Modes : UpdateSettings("mode", mode)
    \/ \E list \in Lists : UpdateSettings("commandWhitelist", list)
    \/ \E list \in Lists : UpdateSettings("commandBlacklist", list)

SpecDecide == Init /\ [][NextDecide]_vars

\* ------------------------------------------- SettingsManager.loadSettings
\* how many of its configuration files loadSettings has to try
MaxConfigFiles == 1

\* the mode in force when no configuration names one
DefaultMode == "whitelist"

\* the settings the constructor fills in
BuiltInDefaults ==
    [mode |-> DefaultMode, commandWhitelist |-> {<<"a">>},
     commandBlacklist |-> {<<"b">>}]

\* One turn of the loop of loadSettings: `await loadFromConfigFile(path)`
\* returned.  A file with a settings object is merged into the settings by
\* updateSettings; a missing or unreadable file changes nothing.  getInstance
\* does not await loadSettings, so nothing orders these turns with the calls
\* of the tools.
LoadFromConfigFile(found, field, value) ==
    /\ loadPending > 0
    /\ loadPending' = loadPending - 1
    /\ settings' = IF found THEN [settings EXCEPT ![field] = value] ELSE settings
    /\ prevDecision' = IF found THEN {} ELSE prevDecision
    /\ UNCHANGED <<callVars, procVars, tagVars, globalSigint, loopPc,
                   loopOptions, messages, agentCalls, shown, extractVars,
                   allowAutoExecution>>

\* the process from the import of config/settings on
InitStartup ==
    /\ Constructed
    /\ settings = BuiltInDefaults
    /\ globalSigint = FALSE
    /\ NoSession
    /\ NoResponse
    /\ allowAutoExecution = TRUE
    /\ loadPending = MaxConfigFiles

NextStartup ==
    \/ \E cmd \in Commands : Decide(cmd)
    \/ \E mode \in Modes : LoadFromConfigFile(TRUE, "mode", mode)
    \/ \E list \in Lists : LoadFromConfigFile(TRUE, "commandWhitelist", list)
    \/ \E list \in Lists : LoadFromConfigFile(TRUE, "commandBlacklist", list)
    \/ LoadFromConfigFile(FALSE, "mode", DefaultMode)

SpecStartup == InitStartup /\ [][NextStartup]_vars

\* ------------------------------------------------------------------ claims
\* The vocabulary of the claims, stated on the characters of the texts.
HasPrefixIn(cmd, list) ==
    \E e \in list : Len(e) <= Len(cmd) /\ \A i \in 1..Len(e) : cmd[i] = e[i]

ContainsEntryOf(cmd, list) ==
    \E e \in list : \E k \in 0..(Len(cmd) - Len(e)) :
        \A i \in 1..Len(e) : cmd[k + i] = e[i]

\* a tool call has evaluated the policy block under the given mode
ToolDecided(mode) == via = "tool" /\ pc # "idle" /\ getCommandExecutionMode = mode

NothingStarted ==
    /\ spawnedCommand = NoCmd
    /\ child = "none"
    /\ ~sigintRegistered
    /\ listeners = {}
    /\ timeoutId = "null"
    /\ kills = <<>>

\* the confirmation dialogue is open and nothing has been started
AwaitingAnswer ==
    /\ pc \in {"prompt", "modify", "unchanged", "details", "modify2", "unchanged2"}
    /\ NothingStarted

RanUnprompted ==
    /\ ~needsConfirmation
    /\ userChoice = "none"
    /\ pc \in {"running", "resolved"}
    /\ spawnedCommand = decidedCommand

\* C1: in MESSAGE mode a tool call resolves at once with the "not executed"
\* result, whatever the command and the lists: no child is spawned, no SIGINT
\* listener or child listener is registered, no timer is armed.
C1_MessageModeNeverExecutes ==
    ToolDecided("message") =>
        /\ pc = "resolved"
        /\ result = MessageResult
        /\ userChoice = "none"
        /\ NothingStarted

C1_Witness ==
    /\ ToolDecided("message")
    /\ pc = "resolved"
    /\ timeout
    /\ HasPrefixIn(decidedCommand, settings.commandWhitelist)
    /\ ~ContainsEntryOf(decidedCommand, settings.commandBlacklist)

\* C2: in WHITELIST mode a command that starts with an allow-list entry needs
\* no confirmation, has reason "whitelist" and is spawned as it is without a
\* prompt, also when it contains a deny-list entry.
C2_AllowlistedRunsUnprompted ==
    (ToolDecided("whitelist")
        /\ HasPrefixIn(decidedCommand, settings.commandWhitelist)) =>
        /\ confirmationReason = "whitelist"
        /\ RanUnprompted

C2_Witness ==
    /\ ToolDecided("whitelist")
    /\ HasPrefixIn(decidedCommand, settings.commandWhitelist)
    /\ ContainsEntryOf(decidedCommand, settings.commandBlacklist)
    /\ spawnedCommand = decidedCommand
    /\ child = "live"

\* C3: in WHITELIST mode a command that starts with no allow-list entry always
\* needs confirmation: reason "blacklist" and default answer reject when it
\* contains a deny-list entry, reason "other" and default answer execute
\* otherwise; a child exists only after the user answered execute or modify.
C3_UnlistedNeedsConfirmation ==
    (ToolDecided("whitelist")
        /\ ~HasPrefixIn(decidedCommand, settings.commandWhitelist)) =>
        /\ needsConfirmation
        /\ IF ContainsEntryOf(decidedCommand, settings.commandBlacklist)
           THEN /\ confirmationReason = "blacklist"
                /\ ~confirmDefault
                /\ PromptDefault = "reject"
           ELSE /\ confirmationReason = "other"
                /\ confirmDefault
                /\ PromptDefault = "execute"
        /\ spawnedCommand # NoCmd => userChoice \in {"execute", "modify"}
        /\ userChoice = "none" => AwaitingAnswer

C3_Witness ==
    /\ ToolDecided("whitelist")
    /\ ~HasPrefixIn(decidedCommand, settings.commandWhitelist)
    /\ ContainsEntryOf(decidedCommand, settings.commandBlacklist)
    /\ settings.commandWhitelist # {}
    /\ pc = "prompt"
    /\ PromptDefault = "reject"

\* C4: in BLACKLIST mode a command that contains a deny-list entry anywhere
\* needs confirmation with reason "blacklist" and default answer reject, also
\* when it starts with an allow-list entry; every other command needs none
\* and runs, with reason "whitelist" if it starts with an allow-list entry
\* and "other" if not.
C4_DenylistModeDecision ==
    ToolDecided("blacklist") =>
        IF ContainsEntryOf(decidedCommand, settings.commandBlacklist)
        THEN /\ needsConfirmation
             /\ confirmationReason = "blacklist"
             /\ ~confirmDefault
             /\ userChoice = "none" => AwaitingAnswer
        ELSE /\ RanUnprompted
             /\ confirmDefault
             /\ confirmationReason =
                    IF HasPrefixIn(decidedCommand, settings.commandWhitelist)
                    THEN "whitelist" ELSE "other"

C4_Witness ==
    /\ ToolDecided("blacklist")
    /\ ContainsEntryOf(decidedCommand, settings.commandBlacklist)
    /\ ~HasPrefixIn(decidedCommand, settings.commandBlacklist)
    /\ HasPrefixIn(decidedCommand, settings.commandWhitelist)
    /\ pc = "prompt"

\* C5: in AUTO mode every command runs without confirmation and without a
\* prompt, with reason "auto"; containing a deny-list entry shows the warning,
\* and only that.
C5_AutoModeAlwaysRuns ==
    ToolDecided("auto") =>
        /\ RanUnprompted
        /\ confirmationReason = "auto"
        /\ warned = ContainsEntryOf(decidedCommand, settings.commandBlacklist)

C5_Witness ==
    /\ ToolDecided("auto")
    /\ ContainsEntryOf(decidedCommand, settings.commandBlacklist)
    /\ warned
    /\ child = "live"
    /\ pc = "running"

OutcomeOf(kind, res) ==
    CASE kind = "CLOSED" -> \E code \in ExitCodes : res = CloseResult(code)
      [] kind = "SPAWN_ERROR" -> res = SpawnErrorResult
      [] kind = "TIMED_OUT" -> res = TimedOutResult
      [] kind = "INTERRUPTED" -> res = InterruptedResult
      [] OTHER -> FALSE

\* C8: for one spawned command at most one of close, error, timer and SIGINT
\* runs its resolution, whatever their order: commandFinished is set exactly
\* when one has, a resolved call with a child has exactly one terminal action
\* and its result is the result of that action.
C8_ExactlyOneTerminal ==
    /\ Len(terminals) <= 1
    /\ commandFinished <=> Len(terminals) = 1
    /\ pc = "running" => (terminals = <<>> /\ result = NoResult)
    /\ (pc = "resolved" /\ spawnedCommand # NoCmd) =>
           (Len(terminals) = 1 /\ OutcomeOf(terminals[1], result))

C8_Witness ==
    /\ terminals = <<"INTERRUPTED">>
    /\ timeoutId = "fired"
    /\ child = "closed"
    /\ result = InterruptedResult

\* C9: when the timer resolves the call, the child is sent a kill and the
\* result is the timed-out result with exit code 124, and stays so when the
\* close event or an error of the kill comes afterwards; when close or error
\* resolves the call, the timer is cleared and cannot fire.
C9_TimeoutOutcome ==
    /\ (terminals # <<>> /\ terminals[1] = "TIMED_OUT") =>
           /\ timeout
           /\ terminals = <<"TIMED_OUT">>
           /\ pc = "resolved"
           /\ result = TimedOutResult
           /\ result.exitCode = 124
           /\ kills = <<"SIGTERM">>
           /\ timeoutId = "fired"
    /\ (terminals # <<>> /\ terminals[1] \in {"CLOSED", "SPAWN_ERROR"}) =>
           /\ timeoutId = IF timeout THEN "cleared" ELSE "null"
           /\ result.exitCode # 124
           /\ kills = <<>>

C9_Witness ==
    /\ terminals = <<"TIMED_OUT">>
    /\ child = "closed"
    /\ caughtKillError
    /\ result.exitCode = 124

\* C10: when SIGINT resolves the call, the child is sent SIGINT once, the
\* result is the interrupted result with exit code 130 and the SIGINT
\* listener is no longer registered; a SIGINT that comes after the
\* resolution changes none of this.
C10_InterruptOutcome ==
    /\ (terminals # <<>> /\ terminals[1] = "INTERRUPTED") =>
           /\ terminals = <<"INTERRUPTED">>
           /\ pc = "resolved"
           /\ result = InterruptedResult
           /\ result.exitCode = 130
           /\ kills = <<"SIGINT">>
           /\ ~sigintRegistered
    /\ lateSigint => (~sigintRegistered /\ Len(terminals) = 1)

C10_Witness ==
    /\ terminals = <<"INTERRUPTED">>
    /\ lateSigint
    /\ child = "live"
    /\ result.exitCode = 130

\* C11: once a call with a child has resolved, nothing registered for it is
\* left: no stream, close or error listener, no SIGINT listener, and the
\* timer is not armed any more.
C11_NothingLeftArmed ==
    (via = "tool" /\ pc = "resolved" /\ spawnedCommand # NoCmd) =>
        /\ listeners = {}
        /\ ~sigintRegistered
        /\ timeoutId # "armed"

\* C12: a call whose child reports a spawn error resolves with exit code 1
\* and the error text, and at no moment of that call is the SIGINT listener
\* registered or the timer armed.
C12_SpawnErrorArmsNothing ==
    /\ (via = "tool" /\ child \in {"spawnfail", "failed"}) =>
           (~sigintRegistered /\ timeoutId = "null")
    /\ (via = "tool" /\ child = "failed" /\ pc = "resolved") =>
           result = SpawnErrorResult

\* C13: a resolved call has exit code 1 when no child was started (MESSAGE
\* mode, refusal, failed prompt) and on a spawn error, 124 exactly when the
\* timer resolved it, 130 exactly when SIGINT resolved it, and 0 only when
\* the child was started and closed with code 0.
C13_ExitCodeConvention ==
    (via = "tool" /\ pc = "resolved") =>
        /\ spawnedCommand = NoCmd => result.exitCode = 1
        /\ terminals = <<"SPAWN_ERROR">> => result.exitCode = 1
        /\ result.exitCode = 124 <=> terminals = <<"TIMED_OUT">>
        /\ result.exitCode = 130 <=> terminals = <<"INTERRUPTED">>
        /\ result.exitCode = 0 => terminals = <<"CLOSED">>

\* C18: an interrupt signal received while a command is running cancels only
\* that execution: no step taken while the child of a tool call is running
\* ends the process, and an execution ended by the interrupt resolves with
\* exit code 130.
C18_InterruptCancelsOnlyExecution ==
    [][/\ (via = "tool" /\ pc = "running" /\ child = "live") => pc' # "exited"
       /\ terminals' = <<"INTERRUPTED">> => result'.exitCode = 130]_vars

\* C20: a command whose text is empty is decided DENY in every mode: a tool
\* call that evaluated the empty text spawns no child.
C20_EmptyCommandDenied ==
    (via = "tool" /\ decidedCommand = <<>>) =>
        (spawnedCommand = NoCmd /\ child = "none")

Last(seq) == seq[Len(seq)]

\* the agent's response to the user turn has been added and holds no directive
ZeroDirectiveResponse(ms) ==
    Len(ms) >= 2 /\ Last(ms) = AssistantMessage(<<>>) /\ ms[Len(ms) - 1].role = "user"

\* C14: when the agent's response to a user turn holds zero directives, the
\* response is added as exactly one assistant message after exactly one agent
\* call, and the loop then goes back to the prompt with no further agent
\* call and no further message.
C14_ZeroDirectivesOneCall ==
    [][/\ (loopPc = "agent" /\ loopPc' = "tags" /\ ZeroDirectiveResponse(messages')) =>
            /\ messages' = Append(messages, AssistantMessage(<<>>))
            /\ agentCalls' = 1
            /\ inFlight' = <<>>
       /\ (loopPc = "tags" /\ loopPc' # "tags" /\ ZeroDirectiveResponse(messages)) =>
            /\ loopPc' = "input"
            /\ messages' = messages
            /\ agentCalls' = 1
            /\ inFlight' = <<>>]_vars

C14_Witness ==
    /\ loopPc = "input"
    /\ agentCalls = 1
    /\ Len(messages) = 3
    /\ messages[2].role = "user"
    /\ messages[3] = AssistantMessage(<<>>)

IsPrefix(a, b) == Len(a) <= Len(b) /\ SubSeq(b, 1, Len(a)) = a

ReportedCommands == [i \in 1..Len(tagResults) |-> tagResults[i].command]

\* the user refused the batch of directives
BatchRefused == \E i \in 1..Len(tagResults) : tagResults[i].output = "cancelled"

\* C16: in every iteration of the loop, including those answering a
\* command-results message, the results reported back to the agent are the
\* outcomes of real executions: unless the batch was refused, a process was
\* started for each reported directive, in order.
C16_ReportedOutcomesAreReal ==
    (loopPc \in {"tags", "tagsAgain"} /\ pc = "tagDone" /\ ~BatchRefused) =>
        started = ReportedCommands

\* C17: the user message added after a response with n >= 1 directives
\* carries, for each directive in extraction order, the command text, its
\* exit code and its output.
C17_ResultsMessageComplete ==
    \A k \in 2..Len(messages) :
        (messages[k].role = "user" /\ messages[k - 1].role = "assistant"
            /\ messages[k - 1].directives # <<>>) =>
            /\ Len(messages[k].results) = Len(messages[k - 1].directives)
            /\ \A i \in 1..Len(messages[k].results) :
                  /\ messages[k].results[i].command = messages[k - 1].directives[i]
                  /\ Len(messages[k].results[i].exitCode) = 1

\* the step is the clear operation of the prompt
ClearStep == loopPc = "input" /\ loopPc' = "input"

\* C19: the conversation is append-only: in every step other than clear the
\* previous message list is a prefix of the new one.
C19_AppendOnly == [][ClearStep \/ IsPrefix(messages, messages')]_vars

\* a system, a user, an assistant and a command-results message were added
C19_Witness ==
    /\ Len(messages) = 5
    /\ [i \in 1..5 |-> messages[i].role] =
           <<"system", "user", "assistant", "user", "assistant">>
    /\ messages[4].results # <<>>

\* the decision of the policy block on a text under the settings in force
DecisionOn(cmd) ==
    PolicyBlock(cmd, getCommandExecutionMode, getCommandWhitelist, getCommandBlacklist)

\* C24: when the user edits the command at the confirmation prompt, the
\* policy is evaluated again on the new text before anything runs: an edited
\* command that was started is the text the policy block decided on, and
\* that decision asked for no confirmation (the dialogue has no second
\* confirmation of an edited text).
C24_EditedCommandReevaluated ==
    (via = "tool" /\ userChoice = "modify" /\ spawnedCommand # NoCmd) =>
        /\ decidedCommand = spawnedCommand
        /\ ~DecisionOn(spawnedCommand).needsConfirmation
        /\ ~DecisionOn(spawnedCommand).blocked

\* prompts that can still follow the prompt at a position of the dialogue
PromptRank(at) ==
    CASE at = "prompt" -> 4
      [] at = "details" -> 3
      [] at \in {"modify", "modify2"} -> 2
      [] at \in {"unchanged", "unchanged2"} -> 1
      [] OTHER -> 0

\* C25: the confirmation dialogue ends after a bounded number of prompts in
\* exactly one of two results: every answer (a failed prompt included) moves
\* to a position from which fewer prompts can follow, so at most four
\* prompts are shown and the details menu is never shown twice, and the
\* dialogue is left either with the command started or with the call
\* resolved, no child started and exit code 1.
C25_DialogueTerminates ==
    [][(via = "tool" /\ PromptRank(pc) > 0) =>
          /\ PromptRank(pc') < PromptRank(pc)
          /\ PromptRank(pc') = 0 =>
                \/ pc' = "running" /\ spawnedCommand' # NoCmd
                \/ /\ pc' = "resolved"
                   /\ spawnedCommand' = NoCmd
                   /\ result' \in {CancelledResult, PromptFailedResult}
                   /\ result'.exitCode = 1]_vars

\* the fourth prompt of the longest dialogue is shown
C25_Witness == via = "tool" /\ pc = "unchanged2" /\ NothingStarted

\* an execution of a tool is in progress: its child was started and no
\* terminal path of it has run
ExecutionInProgress ==
    via \in {"tool", "interactive"} /\ pc = "running" /\ terminals = <<>>

SystemMessagesOf(ms) == SelectSeq(ms, LAMBDA m : m.role = "system")

\* C30: after /clear the session's conversation consists of exactly the
\* system messages it held before, in their original order, on every entry
\* path: the step that shows the success line of /clear leaves exactly those.
C30_ClearKeepsSystemOnly ==
    [][(loopPc = "input" /\ shown' = "cleared") => messages' = SystemMessagesOf(messages)]_vars

\* the step ends an agent call of the loop without a response of the agent
AgentCallFailedStep ==
    /\ loopPc \in {"agent", "agentAgain"}
    /\ loopPc' # loopPc
    /\ messages' = messages \/ Last(messages') = EmptyResponse

LoopStopsStep ==
    /\ loopPc \in {"agent", "agentAgain", "tags", "tagsAgain"}
    /\ loopPc' = "input"
    /\ shown' # "error"

\* C29: the loop stops exactly at the first response with zero directives:
\* whenever it goes back to its prompt without a failed agent call, the last
\* message of the conversation is an assistant response holding no
\* directive.
C29_StopsAtZeroDirectives ==
    [][LoopStopsStep =>
          (Last(messages').role = "assistant" /\ Last(messages').directives = <<>>)]_vars

\* C21: every failure in a command's process lifecycle reaches the loop as
\* a result value and leaves its control flow alone: every step taken while
\* the command of a directive is running adds the result of that command to
\* the results and goes on with the next directive or returns them.
C21_FailuresBecomeResults ==
    [][(loopPc = "tags" /\ pc = "tagChild") =>
          /\ pc' \in {"tagChild", "tagAgent", "tagDone"}
          /\ Len(tagResults') = Len(tagResults) + 1
          /\ IsPrefix(tagResults, tagResults')
          /\ Last(tagResults').command = tagCommands[tagIndex]]_vars

\* the spans of a text that are properly closed: an opening marker, a closing
\* marker after it, and no marker in between
ProperSpans(text) ==
    {<<i, j>> \in (1..Len(text)) \X (1..Len(text)) :
        /\ i < j
        /\ text[i] = OpenTag
        /\ text[j] = CloseTag
        /\ \A k \in (i + 1)..(j - 1) : text[k] \notin {OpenTag, CloseTag}}

\* the text without the positions of the given spans
RECURSIVE WithoutSpans(_, _, _)
WithoutSpans(text, spans, k) ==
    IF k > Len(text) THEN <<>>
    ELSE (IF \E sp \in spans : sp[1] <= k /\ k <= sp[2] THEN <<>> ELSE <<text[k]>>)
         \o WithoutSpans(text, spans, k + 1)

\* C23: for every response text, extraction returns exactly the properly
\* closed spans, in first-to-last order and with their trimmed content, an
\* opening marker without its closing marker yields no directive and stays
\* in the display text, and the display text is the response with exactly
\* the extracted spans removed.
C23_ExtractionExact ==
    processed.done =>
        LET cmds == processed.shellCommands
        IN /\ {<<cmds[k].start + 1, cmds[k].end>> : k \in 1..Len(cmds)}
                  = ProperSpans(responseText)
           /\ \A k \in 1..(Len(cmds) - 1) : cmds[k].end <= cmds[k + 1].start
           /\ \A k \in 1..Len(cmds) :
                  cmds[k].content =
                      trim(SubSeq(responseText, cmds[k].start + 2, cmds[k].end - 1))
           /\ processed.displayText =
                  WithoutSpans(responseText, ProperSpans(responseText), 1)

\* C26: in MESSAGE mode the processor that consults the policy never starts
\* a process for a directive, whatever the deny list says about the commands
\* and whatever the user answers to a prompt.
C26_MessageModeNeverRuns ==
    (via = "policyTags" /\ getCommandExecutionMode = "message") =>
        /\ spawnedCommand = NoCmd
        /\ pc # "tagChild"
        /\ started = <<>>

\* C28: the settings are loaded before the first policy decision and do not
\* change afterwards without an update: no decision has been made while
\* configuration files are still to be loaded, and the decisions made on one
\* command since the last update of the settings are all the same.
C28_LoadedBeforeFirstDecision ==
    /\ prevDecision # {} => loadPending = 0
    /\ \A e1, e2 \in prevDecision : e1[1] = e2[1] => e1[2] = e2[2]

\* C31: in the tool with inherited stdio, too, at most one of close, error,
\* timer and SIGINT runs its terminal action for one spawned command,
\* whatever their order: the finished flag is set as soon as one has, the
\* child is sent at most one signal, and there is no second resolution.
C31_InteractiveOneTerminal ==
    via = "interactive" =>
        /\ Len(terminals) <= 1
        /\ Len(kills) <= 1
        /\ commandFinished <=> Len(terminals) = 1

\* a call the timer or a SIGINT has resolved
ResolvedByTimeoutOrInterrupt ==
    /\ via = "tool"
    /\ terminals # <<>>
    /\ terminals[1] \in {"TIMED_OUT", "INTERRUPTED"}

\* C32: after the timer or a SIGINT has resolved an execution, a later close
\* or error event of the child is a no-op: the child's listeners are gone,
\* the returned outcome stays that of the timeout or the interrupt, and an
\* error event the child emits with no listener is the one of a failed
\* kill, taken by the try/catch around childProcess.kill.
C32_LateEventsAbsorbed ==
    ResolvedByTimeoutOrInterrupt =>
        /\ Len(terminals) = 1
        /\ OutcomeOf(terminals[1], result)
        /\ commandFinished
        /\ listeners = {}
        /\ caughtKillError => kills # <<>>

C32_Witness ==
    /\ ResolvedByTimeoutOrInterrupt
    /\ child = "closed"
    /\ caughtKillError
    /\ result = TimedOutResult

\* C32 as stated: besides, the child never emits an error event while no
\* error listener is registered for it.
C32_NoErrorWithoutListener ==
    ResolvedByTimeoutOrInterrupt =>
        /\ Len(terminals) = 1
        /\ OutcomeOf(terminals[1], result)
        /\ ~caughtKillError

\* C33: each directive of a response is executed at most once during the
\* turn, whatever the options: the executions the processor has started
\* and those the agent has run with its tool on the processor's request are
\* together no more than the directives handled so far.
C33_AtMostOneExecution ==
    (via \in {"tags", "policyTags"} /\ pc \in {"tagAgent", "tagChild", "tagDone"}) =>
        Len(started) + Len(toolRuns) <=
            (IF pc = "tagDone" THEN Len(tagResults) ELSE tagIndex)

\* C34: processShellTags returns exactly one result per directive, in the
\* order of the directives, whether a directive was executed, refused,
\* forbidden by the policy, declined with the whole batch or only collected;
\* while the loop runs, the directives before the current one have their
\* results.
C34_OneResultPerDirective ==
    via \in {"tags", "policyTags"} =>
        /\ pc = "tagDone" => ReportedCommands = tagCommands
        /\ (pc # "tagDone" /\ tagIndex > 0) =>
               /\ Len(tagResults) = tagIndex - 1
               /\ IsPrefix(ReportedCommands, tagCommands)

\* a forbidden directive and an executed deny-listed one have both reported
C34_Witness ==
    /\ via = "policyTags"
    /\ pc = "tagDone"
    /\ Len(tagResults) = 2
    /\ tagResults[1].output = "forbidden"
    /\ tagResults[2].output = "output"

\* the step appends an assistant message to the conversation
AssistantAppendedStep ==
    /\ messages' # messages
    /\ messages' # <<>>
    /\ Last(messages').role = "assistant"

C36_FailedCallLeavesConversation ==
    [][(loopPc \in {"agent", "agentAgain"} /\ shown' = "error") =>
           messages' = messages]_vars

\* the result of a directive that was run / that the policy forbade unasked
WasExecuted(r) == r.output \in {"output", "interactive"}
WasForbidden(r) == r.output = "forbidden"

\* C37: being on the deny list never makes a command easier to run: in one
\* batch, under one policy, when a directive that contains a deny-list
\* entry has been executed, no directive free of deny-list entries has been
\* forbidden without the user being asked.
C37_DenyListNeverHelps ==
    (via = "policyTags" /\ pc = "tagDone") =>
        ~ \E i, j \in 1..Len(tagResults) :
              /\ ContainsEntryOf(tagResults[i].command, getCommandBlacklist)
              /\ WasExecuted(tagResults[i])
              /\ ~ContainsEntryOf(tagResults[j].command, getCommandBlacklist)
              /\ WasForbidden(tagResults[j])

\* C38: under a mode that is none of the four known ones, every decision is
\* the decision of the WHITELIST mode on the same command and lists (early
\* return, confirmation, reason, default answer), and a command that no
\* allow-list entry is a prefix of is never let through without a
\* confirmation.
C38_UnknownModeIsWhitelist ==
    getCommandExecutionMode \notin {"auto", "whitelist", "blacklist", "message"} =>
        \A e \in prevDecision :
            /\ e[2] = WhitelistBranch(e[1], getCommandWhitelist, getCommandBlacklist)
            /\ ~HasPrefixIn(e[1], getCommandWhitelist) =>
                   (e[2].needsConfirmation /\ ~e[2].blocked)

\* under an unknown mode one command was let through and another, on the
\* deny list, was not
C38_Witness ==
    /\ getCommandExecutionMode = "other"
    /\ \E e \in prevDecision : ~e[2].needsConfirmation
    /\ \E e \in prevDecision :
          e[2].needsConfirmation /\ e[2].confirmationReason = "blacklist"
                                /\ ~e[2].confirmDefault

====
